---- MODULE Spec2Model ----
(***************************************************************************)
(* Family budget API (src/api): users, categories, transactions, spaces    *)
(* and space transfers kept in a relational store, the request handlers of *)
(* main.py that mutate it, and the summary derived from it on demand.      *)
(*                                                                         *)
(* Strings are sequences of one-character strings, so that strip() and     *)
(* lower() are computed.  Money on the way in is a decimal amount given in *)
(* thousandths of a currency unit; stored money is integer cents.  Time is *)
(* counted in ticks of 1/TicksPerDay day since 1 January EpochYear.        *)
(***************************************************************************)
EXTENDS Integers, Sequences, FiniteSets, TLC

VARIABLES
    users,          \* table User
    categories,     \* table Category
    transactions,   \* table Transaction
    spaces,         \* table Space
    transfers,      \* table SpaceTransfer
    now,            \* datetime.utcnow(), in ticks
    response,       \* the response to the request handled last
    admin_token,    \* ADMIN_TOKEN, read from the environment at import
    sessions,       \* the requests in flight, one per worker
    dialogue        \* the bot's FSMContext of the chat, and the call it awaits

store == <<users, categories, transactions, spaces, transfers>>
vars == <<users, categories, transactions, spaces, transfers, now, response,
          admin_token, sessions, dialogue>>

----------------------------------------------------------------------------
(* Bounds of the model *)

MaxRows == 1
MaxTx == 2
MaxTr == 2
MaxTicks == 1
TicksPerDay == 2
EpochYear == 2024
StartDay == 30
MaxDays == 400

\* the clock at startup: the last tick of day StartDay
NowStart == StartDay * TicksPerDay + (TicksPerDay - 1)

----------------------------------------------------------------------------
(* Strings *)

Whitespace == {" ", "\t", "\n"}
UpperCase == <<"A","B","C","D","E","F","G","H","I","J","K","L","M",
               "N","O","P","Q","R","S","T","U","V","W","X","Y","Z">>
LowerCase == <<"a","b","c","d","e","f","g","h","i","j","k","l","m",
               "n","o","p","q","r","s","t","u","v","w","x","y","z">>

RECURSIVE lstrip(_)
lstrip(s) ==
    IF s # <<>> /\ Head(s) \in Whitespace THEN lstrip(Tail(s)) ELSE s

RECURSIVE rstrip(_)
rstrip(s) ==
    IF s # <<>> /\ s[Len(s)] \in Whitespace
    THEN rstrip(SubSeq(s, 1, Len(s) - 1))
    ELSE s

strip(s) == rstrip(lstrip(s))

\* the lower-case letter of every upper-case letter
ToLower ==
    [c \in {UpperCase[i] : i \in DOMAIN UpperCase} |->
        LowerCase[CHOOSE i \in DOMAIN UpperCase : UpperCase[i] = c]]

lowerChar(c) == IF c \in DOMAIN ToLower THEN ToLower[c] ELSE c

lower(s) == [i \in DOMAIN s |-> lowerChar(s[i])]

INCOME == <<"i","n","c","o","m","e">>
EXPENSE == <<"e","x","p","e","n","s","e">>
TO_SPACE == <<"t","o","_","s","p","a","c","e">>
FROM_SPACE == <<"f","r","o","m","_","s","p","a","c","e">>

----------------------------------------------------------------------------
(* Optional values: None is the empty sequence, a value v is <<v>> *)

None == <<>>
Some(v) == <<v>>
Or(opt, default) == IF opt = None THEN default ELSE opt[1]

----------------------------------------------------------------------------
(* Money *)

\* int(round(amount * 100)): Python rounds a half to the even neighbour
RoundHalfEven(n, d) ==
    LET q == n \div d
        r == n % d
    IN  IF 2 * r < d THEN q
        ELSE IF 2 * r > d THEN q + 1
        ELSE IF q % 2 = 0 THEN q ELSE q + 1

\* amount is given in thousandths: amount * 100 = milli / 10
ToCents(milli) == RoundHalfEven(milli, 10)

\* value_c / 100.0 on the way out: the quotient, kept as numerator and denominator
FromCents(c) == [num |-> c, den |-> 100]

RECURSIVE SumAmount(_)
SumAmount(rows) ==
    IF rows = {} THEN 0
    ELSE LET r == CHOOSE x \in rows : TRUE
         IN  r.amount_cents + SumAmount(rows \ {r})

----------------------------------------------------------------------------
(* Calendar: ticks <-> (year, month, day, tick of day) *)

IsLeap(y) == (y % 4 = 0 /\ y % 100 # 0) \/ y % 400 = 0

DaysInMonth(y, m) ==
    IF m = 2 THEN (IF IsLeap(y) THEN 28 + 1 ELSE 28)
    ELSE IF m \in {4, 6, 9, 11} THEN 30
    ELSE 31

\* the date of day number d, counted from 1 January EpochYear = day 0
RECURSIVE DateFrom(_, _, _)
DateFrom(y, m, d) ==
    IF d < DaysInMonth(y, m) THEN [year |-> y, month |-> m, day |-> d + 1]
    ELSE IF m = 12 THEN DateFrom(y + 1, 1, d - DaysInMonth(y, m))
    ELSE DateFrom(y, m + 1, d - DaysInMonth(y, m))

DateOf(t) == DateFrom(EpochYear, 1, t \div TicksPerDay)

\* now.replace(day=1, hour=0, minute=0, second=0, microsecond=0)
ReplaceDay1Midnight(t) ==
    ((t \div TicksPerDay) - (DateOf(t).day - 1)) * TicksPerDay

\* dt.replace(day=1): the time of day is kept
ReplaceDay1(t) == t - (DateOf(t).day - 1) * TicksPerDay

PlusDays(t, n) == t + n * TicksPerDay

----------------------------------------------------------------------------
(* The store *)

\* INTEGER PRIMARY KEY without AUTOINCREMENT: one more than the largest id
NextId(table) ==
    IF table = {} THEN 1
    ELSE (CHOOSE i \in {r.id : r \in table} :
              \A j \in {r.id : r \in table} : j <= i) + 1

\* .first() of a select: the row of least id, or None
First(rows) ==
    IF rows = {} THEN None
    ELSE Some(CHOOSE r \in rows : \A q \in rows : r.id <= q.id)

\* variant: no unique index on the column
UniqueViolation_Off(table, col, value) == FALSE

\* unique=True on a column: the insert is refused when the value is taken
UniqueViolation(table, col, value) == \E r \in table : r[col] = value

\* a worker's request in flight: where it stands and its local variables
Workers == {1, 2}
Idle ==
    [pc |-> "idle", telegram_id |-> 0, name |-> <<>>, kind |-> <<>>,
     amount_cents |-> 0, happened_at |-> None, note |-> "", ref_id |-> 0,
     balance_c |-> 0]

Tokens == {"", "s3cret"}

\* state.clear(): no state, no data; the handler awaits no API call
Cleared ==
    [state |-> "idle", type |-> None, amount |-> None, category_name |-> None,
     direction |-> None, space_name |-> None, awaiting |-> "none",
     note |-> <<>>]

Init ==
    /\ admin_token \in Tokens
    /\ users = {}
    /\ categories = {}
    /\ transactions = {}
    /\ spaces = {}
    /\ transfers = {}
    /\ now = NowStart
    /\ response = [status |-> 200, detail |-> "", kind |-> "none", body |-> None]
    /\ sessions = [w \in Workers |-> Idle]
    /\ dialogue = Cleared

\* kind names the shape of the body
Reply(status, kind, body) ==
    response' = [status |-> status, detail |-> "", kind |-> kind, body |-> body]

\* raise HTTPException(status_code, detail): nothing of this request is written
Failure(status, detail) ==
    response' = [status |-> status, detail |-> detail, kind |-> "error",
                 body |-> None]

Raise(status, detail) ==
    /\ Failure(status, detail)
    /\ UNCHANGED <<users, categories, transactions, spaces, transfers, now,
                   admin_token, sessions, dialogue>>

----------------------------------------------------------------------------
(* Queries shared by the handlers *)

UNKNOWN == <<"U","n","k","n","o","w","n">>

UserByTelegramId(tid) == First({u \in users : u.telegram_id = tid})

\* variant: the active flag is not looked at
UserAllowed_Known(tid) == UserByTelegramId(tid) # None

\* ensure_user_allowed raises 403 unless this holds
UserAllowed(tid) ==
    LET user == UserByTelegramId(tid)
    IN  user # None /\ user[1].is_active

CategoryByName(cats, name) == First({c \in cats : c.name = name})

SpaceByName(sps, name) == First({s \in sps : s.name = name})

\* select direction, sum(amount_cents) ... group by direction, then the sum of
\* the groups of one direction
DirectionTotal(rows, direction) ==
    SumAmount({r \in rows : r.direction = direction})

\* to_c - from_c over all the transfers of one space
SpaceBalance(trs, space_id) ==
    LET rows == {r \in trs : r.space_id = space_id}
    IN  DirectionTotal(rows, TO_SPACE) - DirectionTotal(rows, FROM_SPACE)

\* variant: the end of the period is included
InPeriod_Closed(rows, start, end) ==
    {r \in rows : r.happened_at >= start /\ r.happened_at <= end}

\* where happened_at >= start and happened_at < end
InPeriod(rows, start, end) ==
    {r \in rows : r.happened_at >= start /\ r.happened_at < end}

\* the rows of a table as the sequence a scan by rowid yields
ById(rows) ==
    CHOOSE s \in [1..Cardinality(rows) -> rows] :
        \A i, j \in DOMAIN s : i < j => s[i].id < s[j].id

\* sorted(by_cat_c.items(), key=total, reverse=True): an order of the items in
\* which the totals do not increase
ByTotalDescending(items) ==
    CHOOSE s \in [1..Cardinality(items) -> items] :
        /\ \A i, j \in DOMAIN s : i # j => s[i] # s[j]
        /\ \A i, j \in DOMAIN s : i < j => s[i].total_c >= s[j].total_c

\* ORDER BY count(...) DESC: an order of the groups in which the counts do not
\* increase
ByCountDescending(groups) ==
    CHOOSE s \in [1..Cardinality(groups) -> groups] :
        /\ \A i, j \in DOMAIN s : i # j => s[i] # s[j]
        /\ \A i, j \in DOMAIN s : i < j => s[i].cnt >= s[j].cnt

Limit(s, n) == SubSeq(s, 1, IF Len(s) < n THEN Len(s) ELSE n)

----------------------------------------------------------------------------
(* POST /admin/users *)

\* variant: an empty configured token is not refused
AdminAuthorized_EmptyAllowed(x_admin_token) == x_admin_token = Some(admin_token)

\* require_admin raises 401 unless this holds
AdminAuthorized(x_admin_token) ==
    ~(admin_token = "" \/ x_admin_token # Some(admin_token))

\* variant: a row is added whether or not the telegram_id has one
admin_upsert_user_Insert(x_admin_token, telegram_id, name, is_active, role) ==
    IF ~AdminAuthorized(x_admin_token)
    THEN Raise(401, "Unauthorized")
    ELSE /\ users' = users \cup
                  {[id |-> NextId(users), telegram_id |-> telegram_id,
                    name |-> name, role |-> role, is_active |-> is_active]}
         /\ Reply(200, "ok", [ok |-> TRUE])
         /\ UNCHANGED <<categories, transactions, spaces, transfers, now,
                        admin_token, sessions, dialogue>>

admin_upsert_user(x_admin_token, telegram_id, name, is_active, role) ==
    LET user == UserByTelegramId(telegram_id)
    IN  IF ~AdminAuthorized(x_admin_token)
        THEN Raise(401, "Unauthorized")
        ELSE /\ users' =
                  IF user # None
                  THEN (users \ {user[1]}) \cup
                       {[user[1] EXCEPT !.name = name, !.is_active = is_active,
                                        !.role = role]}
                  ELSE users \cup
                       {[id |-> NextId(users), telegram_id |-> telegram_id,
                         name |-> name, role |-> role, is_active |-> is_active]}
             /\ Reply(200, "ok", [ok |-> TRUE])
             /\ UNCHANGED <<categories, transactions, spaces, transfers, now,
                            admin_token, sessions, dialogue>>

----------------------------------------------------------------------------
(* POST /transactions *)

\* variant: a category row is added whether or not the name is taken
WithCategory_Always(cats, name, tx_type) ==
    cats \cup {[id |-> NextId(cats), name |-> name, type |-> tx_type]}

\* the Category table after get_or_create_category(name, tx_type) returned
WithCategory(cats, name, tx_type) ==
    IF CategoryByName(cats, name) # None THEN cats
    ELSE cats \cup {[id |-> NextId(cats), name |-> name, type |-> tx_type]}

\* variant: the type of an existing category is not compared
TypeMismatch_Never(cats, name, tx_type) == FALSE

\* variant: the type is compared for an income request only
TypeMismatch_IncomeOnly(cats, name, tx_type) ==
    LET cat == CategoryByName(cats, name)
    IN  tx_type = INCOME /\ cat # None /\ cat[1].type # tx_type

\* get_or_create_category raises 400 when this holds
TypeMismatch(cats, name, tx_type) ==
    LET cat == CategoryByName(cats, name)
    IN  cat # None /\ cat[1].type # tx_type

create_transaction(telegram_id, type, amount, category_name, happened_at, note) ==
    LET tx_type == lower(strip(type))
        name == strip(category_name)
        cats == WithCategory(categories, name, tx_type)
        cat == CategoryByName(cats, name)[1]
        tx == [id |-> NextId(transactions),
               type |-> tx_type,
               amount_cents |-> ToCents(amount),
               category_id |-> cat.id,
               happened_at |-> Or(happened_at, now),
               note |-> note,
               created_by_telegram_id |-> telegram_id]
    IN  IF ~UserAllowed(telegram_id)
        THEN Raise(403, "User not allowed")
        ELSE IF tx_type \notin {INCOME, EXPENSE}
        THEN Raise(400, "Invalid type")
        ELSE IF TypeMismatch(categories, name, tx_type)
        THEN Raise(400, "Category type mismatch")
        ELSE /\ categories' = cats
             /\ transactions' = transactions \cup {tx}
             /\ Reply(200, "id", [id |-> tx.id, ok |-> TRUE])
             /\ UNCHANGED <<users, spaces, transfers, now, admin_token, sessions, dialogue>>

----------------------------------------------------------------------------
(* DELETE /transactions/{tx_id} *)

\* variant: only an admin may delete
MayDelete_AdminOnly(user, tx, telegram_id) == user.role = "admin"

\* the rule of delete_transaction: an admin, or the one who created the row
MayDelete(user, tx, telegram_id) ==
    ~(user.role # "admin" /\ tx.created_by_telegram_id # telegram_id)

\* variant: a category left without transactions is deleted with the row
delete_transaction_Cascade(tx_id, telegram_id) ==
    LET user == UserByTelegramId(telegram_id)
        tx == First({t \in transactions : t.id = tx_id})
    IN  IF ~UserAllowed(telegram_id)
        THEN Raise(403, "User not allowed")
        ELSE IF tx = None
        THEN Raise(404, "Not found")
        ELSE IF ~MayDelete(user[1], tx[1], telegram_id)
        THEN Raise(403, "Forbidden")
        ELSE /\ transactions' = transactions \ {tx[1]}
             /\ categories' = {c \in categories :
                                 \E t \in transactions' : t.category_id = c.id}
             /\ Reply(200, "ok", [ok |-> TRUE])
             /\ UNCHANGED <<users, spaces, transfers, now, admin_token, sessions, dialogue>>

delete_transaction(tx_id, telegram_id) ==
    LET user == UserByTelegramId(telegram_id)
        tx == First({t \in transactions : t.id = tx_id})
    IN  IF ~UserAllowed(telegram_id)
        THEN Raise(403, "User not allowed")
        ELSE IF tx = None
        THEN Raise(404, "Not found")
        ELSE IF ~MayDelete(user[1], tx[1], telegram_id)
        THEN Raise(403, "Forbidden")
        ELSE /\ transactions' = transactions \ {tx[1]}
             /\ Reply(200, "ok", [ok |-> TRUE])
             /\ UNCHANGED <<users, categories, spaces, transfers, now,
                            admin_token, sessions, dialogue>>

----------------------------------------------------------------------------
(* GET /summary *)

\* the period of the summary: the current month unless both bounds are given
DefaultStart(t) == ReplaceDay1Midnight(t)
\* variant: 28 days, not 32, are added to the start
DefaultEnd_Plus28(t) == ReplaceDay1(PlusDays(DefaultStart(t), 28))

DefaultEnd(t) == ReplaceDay1(PlusDays(DefaultStart(t), 32))

PeriodStart(start, end, t) ==
    IF start = None \/ end = None THEN DefaultStart(t) ELSE start[1]

PeriodEnd(start, end, t) ==
    IF start = None \/ end = None THEN DefaultEnd(t) ELSE end[1]

\* the loop over txs: income when tx.type == "income", expense otherwise
IncomeTotal(txs) == SumAmount({tx \in txs : tx.type = INCOME})
ExpenseTotal(txs) == SumAmount({tx \in txs : tx.type # INCOME})

CategoryNameOf(cats, category_id) ==
    LET cat == First({c \in cats : c.id = category_id})
    IN  IF cat # None THEN cat[1].name ELSE UNKNOWN

\* by_cat_c: the total of every (category name, type) met in txs
ByCategory(txs, cats) ==
    LET keys == {<<CategoryNameOf(cats, tx.category_id), tx.type>> : tx \in txs}
    IN  {[category |-> k[1], type |-> k[2],
          total_c |-> SumAmount({tx \in txs :
                          <<CategoryNameOf(cats, tx.category_id), tx.type>> = k})]
         : k \in keys}

SummaryItems(txs, cats) ==
    LET sorted == ByTotalDescending(ByCategory(txs, cats))
    IN  [i \in DOMAIN sorted |->
            [category |-> sorted[i].category, type |-> sorted[i].type,
             total |-> FromCents(sorted[i].total_c)]]

\* variant: the signs of the two directions are swapped
CashBalance_Swapped(txs, trs) ==
    (IncomeTotal(txs) - ExpenseTotal(txs))
        + DirectionTotal(trs, TO_SPACE) - DirectionTotal(trs, FROM_SPACE)

CashBalance(txs, trs) ==
    (IncomeTotal(txs) - ExpenseTotal(txs))
        - DirectionTotal(trs, TO_SPACE) + DirectionTotal(trs, FROM_SPACE)

\* variant: only the to_space cents of the spaces are summed
SpacesTotal_ToOnly(sps, trs) ==
    SumAmount({r \in trs : r.direction = TO_SPACE
                             /\ \E sp \in sps : sp.id = r.space_id})

RECURSIVE SpacesTotal(_, _)
SpacesTotal(sps, trs) ==
    IF sps = {} THEN 0
    ELSE LET sp == CHOOSE x \in sps : TRUE
         IN  SpaceBalance(trs, sp.id) + SpacesTotal(sps \ {sp}, trs)

SpaceItems(sps, trs) ==
    LET rows == ById(sps)
    IN  [i \in DOMAIN rows |->
            [space |-> rows[i].name,
             balance |-> FromCents(SpaceBalance(trs, rows[i].id))]]

\* variant: the balances of the spaces are taken over the period only
SummaryResponse_PeriodSpaces(start, end) ==
    LET txs == InPeriod(transactions, start, end)
        trs == InPeriod(transfers, start, end)
        cash_balance_c == CashBalance(txs, trs)
        spaces_total_c == SpacesTotal(spaces, trs)
    IN  [start |-> start,
         end |-> end,
         income_total |-> FromCents(IncomeTotal(txs)),
         expense_total |-> FromCents(ExpenseTotal(txs)),
         cash_balance |-> FromCents(cash_balance_c),
         spaces_total |-> FromCents(spaces_total_c),
         total_assets |-> FromCents(cash_balance_c + spaces_total_c),
         spaces |-> SpaceItems(spaces, transfers),
         by_category |-> SummaryItems(txs, categories)]

SummaryResponse(start, end) ==
    LET txs == InPeriod(transactions, start, end)
        trs == InPeriod(transfers, start, end)
        cash_balance_c == CashBalance(txs, trs)
        spaces_total_c == SpacesTotal(spaces, transfers)
    IN  [start |-> start,
         end |-> end,
         income_total |-> FromCents(IncomeTotal(txs)),
         expense_total |-> FromCents(ExpenseTotal(txs)),
         cash_balance |-> FromCents(cash_balance_c),
         spaces_total |-> FromCents(spaces_total_c),
         total_assets |-> FromCents(cash_balance_c + spaces_total_c),
         spaces |-> SpaceItems(spaces, transfers),
         by_category |-> SummaryItems(txs, categories)]

summary(telegram_id, start, end) ==
    IF ~UserAllowed(telegram_id)
    THEN Raise(403, "User not allowed")
    ELSE /\ Reply(200, "summary",
                  SummaryResponse(PeriodStart(start, end, now),
                                  PeriodEnd(start, end, now)))
         /\ UNCHANGED <<users, categories, transactions, spaces, transfers, now,
                        admin_token, sessions, dialogue>>

----------------------------------------------------------------------------
(* GET /categories/top and GET /spaces/top *)

TopLimit == 6
WindowDays == 30

Since(t) == t - WindowDays * TicksPerDay

\* join, where, group by name, order by count desc, limit
TopNames(groups) ==
    LET rows == Limit(ByCountDescending(groups), TopLimit)
    IN  [i \in DOMAIN rows |-> rows[i].name]

CategoryCounts(type, since) ==
    LET joined == {<<c, tx>> \in categories \X transactions :
                      /\ tx.category_id = c.id
                      /\ tx.type = type
                      /\ tx.happened_at >= since}
    IN  {[name |-> n,
          cnt |-> Cardinality({j \in joined : j[1].name = n})]
         : n \in {j[1].name : j \in joined}}

top_categories(telegram_id, type) ==
    IF ~UserAllowed(telegram_id)
    THEN Raise(403, "User not allowed")
    ELSE IF type \notin {INCOME, EXPENSE}
    THEN Raise(400, "Invalid type")
    ELSE /\ Reply(200, "names",
                  TopNames(CategoryCounts(type, Since(now))))
         /\ UNCHANGED <<users, categories, transactions, spaces, transfers, now,
                        admin_token, sessions, dialogue>>

SpaceCounts(since) ==
    LET joined == {<<sp, tr>> \in spaces \X transfers :
                      /\ tr.space_id = sp.id
                      /\ tr.happened_at >= since}
    IN  {[name |-> n,
          cnt |-> Cardinality({j \in joined : j[1].name = n})]
         : n \in {j[1].name : j \in joined}}

top_spaces(telegram_id) ==
    IF ~UserAllowed(telegram_id)
    THEN Raise(403, "User not allowed")
    ELSE /\ Reply(200, "names", TopNames(SpaceCounts(Since(now))))
         /\ UNCHANGED <<users, categories, transactions, spaces, transfers, now,
                        admin_token, sessions, dialogue>>

----------------------------------------------------------------------------
(* GET /spaces *)

\* the loop over the grouped rows: the sum of the direction's group, 0 without one
GroupValue(rows, direction) ==
    IF \E r \in rows : r.direction = direction
    THEN DirectionTotal(rows, direction)
    ELSE 0

\* variant: the from_space group is not subtracted
ListBalance_ToOnly(trs, space_id) ==
    GroupValue({r \in trs : r.space_id = space_id}, TO_SPACE)

ListBalance(trs, space_id) ==
    LET rows == {r \in trs : r.space_id = space_id}
    IN  GroupValue(rows, TO_SPACE) - GroupValue(rows, FROM_SPACE)

ListSpacesResponse ==
    LET rows == ById(spaces)
    IN  [i \in DOMAIN rows |->
            [id |-> rows[i].id, name |-> rows[i].name,
             balance |-> FromCents(ListBalance(transfers, rows[i].id))]]

list_spaces(telegram_id) ==
    IF ~UserAllowed(telegram_id)
    THEN Raise(403, "User not allowed")
    ELSE /\ Reply(200, "spaces", ListSpacesResponse)
         /\ UNCHANGED <<users, categories, transactions, spaces, transfers, now,
                        admin_token, sessions, dialogue>>

----------------------------------------------------------------------------
(* POST /spaces/transfer *)

\* the Space table after get_or_create_space(name) returned
WithSpace(sps, name, t) ==
    IF SpaceByName(sps, name) # None THEN sps
    ELSE sps \cup {[id |-> NextId(sps), name |-> name, created_at |-> t]}

\* variant: the balance is never checked
NotEnough_Never(amount_cents, balance_c) == FALSE

\* variants of the check: one that tolerates an overdraft of a cent, one that
\* refuses to empty a space
NotEnough_OffByOne(amount_cents, balance_c) == amount_cents > balance_c + 1
NotEnough_Strict(amount_cents, balance_c) == amount_cents >= balance_c

\* the check of a from_space transfer: raise 400 when this holds
NotEnough(amount_cents, balance_c) == amount_cents > balance_c

space_transfer(telegram_id, space_name, direction_in, amount, happened_at, note) ==
    LET direction == strip(direction_in)
        sps == WithSpace(spaces, strip(space_name), now)
        sp == SpaceByName(sps, strip(space_name))[1]
        amount_cents == ToCents(amount)
        balance_c == SpaceBalance(transfers, sp.id)
        tr == [id |-> NextId(transfers),
               space_id |-> sp.id,
               amount_cents |-> amount_cents,
               direction |-> direction,
               happened_at |-> Or(happened_at, now),
               note |-> note,
               created_by_telegram_id |-> telegram_id]
    IN  IF ~UserAllowed(telegram_id)
        THEN Raise(403, "User not allowed")
        ELSE IF direction \notin {TO_SPACE, FROM_SPACE}
        THEN Raise(400, "Invalid direction")
        ELSE IF direction = FROM_SPACE /\ NotEnough(amount_cents, balance_c)
        THEN \* get_or_create_space has committed the space before the check
             /\ spaces' = sps
             /\ Failure(400, "Not enough money in space")
             /\ UNCHANGED <<users, categories, transactions, transfers, now,
                            admin_token, sessions, dialogue>>
        ELSE /\ spaces' = sps
             /\ transfers' = transfers \cup {tr}
             /\ Reply(200, "id", [id |-> tr.id, ok |-> TRUE])
             /\ UNCHANGED <<users, categories, transactions, now, admin_token,
                            sessions, dialogue>>

----------------------------------------------------------------------------
(* The handlers of POST /transactions and POST /spaces/transfer statement  *)
(* by statement: every select and every commit is a step of its own, and   *)
(* the steps of the workers interleave.  Each worker has its own Session;  *)
(* a select reads what is committed.                                       *)

Answer(w, resp) ==
    /\ response' = resp
    /\ sessions' = [sessions EXCEPT ![w] = Idle]

Error(status, detail) ==
    [status |-> status, detail |-> detail, kind |-> "error", body |-> None]

\* ensure_user_allowed and the check of payload.type
begin_create_transaction(w, telegram_id, type, amount, category_name, happened_at, note) ==
    LET tx_type == lower(strip(type))
    IN  /\ sessions[w].pc = "idle"
        /\ UNCHANGED <<users, categories, transactions, spaces, transfers, now,
                       admin_token, dialogue>>
        /\ IF ~UserAllowed(telegram_id)
           THEN Answer(w, Error(403, "User not allowed"))
           ELSE IF tx_type \notin {INCOME, EXPENSE}
           THEN Answer(w, Error(400, "Invalid type"))
           ELSE /\ sessions' = [sessions EXCEPT ![w] =
                       [Idle EXCEPT !.pc = "select_category",
                                    !.telegram_id = telegram_id,
                                    !.name = strip(category_name),
                                    !.kind = tx_type,
                                    !.amount_cents = ToCents(amount),
                                    !.happened_at = happened_at,
                                    !.note = note]]
                /\ UNCHANGED response

\* get_or_create_category: the select by name
select_category(w) ==
    LET s == sessions[w]
        cat == CategoryByName(categories, s.name)
    IN  /\ s.pc = "select_category"
        /\ UNCHANGED <<users, categories, transactions, spaces, transfers, now,
                       admin_token, dialogue>>
        /\ IF TypeMismatch(categories, s.name, s.kind)
           THEN Answer(w, Error(400, "Category type mismatch"))
           ELSE /\ sessions' = [sessions EXCEPT ![w] =
                       IF cat # None
                       THEN [s EXCEPT !.pc = "insert_transaction",
                                      !.ref_id = cat[1].id]
                       ELSE [s EXCEPT !.pc = "insert_category"]]
                /\ UNCHANGED response

\* get_or_create_category: session.add(cat), session.commit()
insert_category(w) ==
    LET s == sessions[w]
        cat == [id |-> NextId(categories), name |-> s.name, type |-> s.kind]
    IN  /\ s.pc = "insert_category"
        /\ UNCHANGED <<users, transactions, spaces, transfers, now, admin_token, dialogue>>
        /\ IF UniqueViolation(categories, "name", s.name)
           THEN \* IntegrityError, not caught by the handler
                /\ Answer(w, Error(500, "Internal Server Error"))
                /\ UNCHANGED categories
           ELSE /\ categories' = categories \cup {cat}
                /\ sessions' = [sessions EXCEPT ![w] =
                       [s EXCEPT !.pc = "insert_transaction", !.ref_id = cat.id]]
                /\ UNCHANGED response

\* session.add(tx), session.commit()
insert_transaction(w) ==
    LET s == sessions[w]
        tx == [id |-> NextId(transactions),
               type |-> s.kind,
               amount_cents |-> s.amount_cents,
               category_id |-> s.ref_id,
               happened_at |-> Or(s.happened_at, now),
               note |-> s.note,
               created_by_telegram_id |-> s.telegram_id]
    IN  /\ s.pc = "insert_transaction"
        /\ transactions' = transactions \cup {tx}
        /\ Answer(w, [status |-> 200, detail |-> "", kind |-> "id",
                      body |-> [id |-> tx.id, ok |-> TRUE]])
        /\ UNCHANGED <<users, categories, spaces, transfers, now, admin_token, dialogue>>

\* ensure_user_allowed and the check of payload.direction
begin_space_transfer(w, telegram_id, space_name, direction_in, amount, happened_at, note) ==
    LET direction == strip(direction_in)
    IN  /\ sessions[w].pc = "idle"
        /\ UNCHANGED <<users, categories, transactions, spaces, transfers, now,
                       admin_token, dialogue>>
        /\ IF ~UserAllowed(telegram_id)
           THEN Answer(w, Error(403, "User not allowed"))
           ELSE IF direction \notin {TO_SPACE, FROM_SPACE}
           THEN Answer(w, Error(400, "Invalid direction"))
           ELSE /\ sessions' = [sessions EXCEPT ![w] =
                       [Idle EXCEPT !.pc = "select_space",
                                    !.telegram_id = telegram_id,
                                    !.name = strip(space_name),
                                    !.kind = direction,
                                    !.amount_cents = ToCents(amount),
                                    !.happened_at = happened_at,
                                    !.note = note]]
                /\ UNCHANGED response

\* the step after the space is known: the balance is read only for from_space
AfterSpace(s) == IF s.kind = FROM_SPACE THEN "select_balance" ELSE "insert_transfer"

\* get_or_create_space: the select by name
select_space(w) ==
    LET s == sessions[w]
        sp == SpaceByName(spaces, s.name)
    IN  /\ s.pc = "select_space"
        /\ sessions' = [sessions EXCEPT ![w] =
               IF sp # None
               THEN [s EXCEPT !.pc = AfterSpace(s), !.ref_id = sp[1].id]
               ELSE [s EXCEPT !.pc = "insert_space"]]
        /\ UNCHANGED <<users, categories, transactions, spaces, transfers, now,
                       admin_token, response, dialogue>>

\* get_or_create_space: session.add(s), session.commit()
insert_space(w) ==
    LET s == sessions[w]
        sp == [id |-> NextId(spaces), name |-> s.name, created_at |-> now]
    IN  /\ s.pc = "insert_space"
        /\ UNCHANGED <<users, categories, transactions, transfers, now,
                       admin_token, dialogue>>
        /\ IF UniqueViolation(spaces, "name", s.name)
           THEN /\ Answer(w, Error(500, "Internal Server Error"))
                /\ UNCHANGED spaces
           ELSE /\ spaces' = spaces \cup {sp}
                /\ sessions' = [sessions EXCEPT ![w] =
                       [s EXCEPT !.pc = AfterSpace(s), !.ref_id = sp.id]]
                /\ UNCHANGED response

\* the select of the sums by direction, and the check against them
select_balance(w) ==
    LET s == sessions[w]
        balance_c == SpaceBalance(transfers, s.ref_id)
    IN  /\ s.pc = "select_balance"
        /\ UNCHANGED <<users, categories, transactions, spaces, transfers, now,
                       admin_token, dialogue>>
        /\ IF NotEnough(s.amount_cents, balance_c)
           THEN Answer(w, Error(400, "Not enough money in space"))
           ELSE /\ sessions' = [sessions EXCEPT ![w] =
                       [s EXCEPT !.pc = "insert_transfer",
                                 !.balance_c = balance_c]]
                /\ UNCHANGED response

\* session.add(tr), session.commit()
insert_transfer(w) ==
    LET s == sessions[w]
        tr == [id |-> NextId(transfers),
               space_id |-> s.ref_id,
               amount_cents |-> s.amount_cents,
               direction |-> s.kind,
               happened_at |-> Or(s.happened_at, now),
               note |-> s.note,
               created_by_telegram_id |-> s.telegram_id]
    IN  /\ s.pc = "insert_transfer"
        /\ transfers' = transfers \cup {tr}
        /\ Answer(w, [status |-> 200, detail |-> "", kind |-> "id",
                      body |-> [id |-> tr.id, ok |-> TRUE]])
        /\ UNCHANGED <<users, categories, transactions, spaces, now, admin_token, dialogue>>

----------------------------------------------------------------------------
(* The clock *)

Tick ==
    /\ now < NowStart + MaxTicks
    /\ now' = now + 1
    /\ UNCHANGED <<users, categories, transactions, spaces, transfers, response,
                   admin_token, sessions, dialogue>>

\* days go by between two requests
Elapse(days) ==
    /\ PlusDays(now, days) <= PlusDays(NowStart, MaxDays)
    /\ now' = PlusDays(now, days)
    /\ UNCHANGED <<users, categories, transactions, spaces, transfers, response,
                   admin_token, sessions, dialogue>>

----------------------------------------------------------------------------
(* The requests the model sends *)

SECRET == "s3cret"
Credentials == {None, Some(SECRET), Some("wrong")}

GIFT == <<"g","i","f","t">>
FOOD == <<"F","o","o","d">>
PAY == <<"P","a","y">>
CAR == <<"C","a","r">>
TRIP == <<"T","r","i","p">>
Padded(s) == <<" ">> \o s \o <<" ">>

\* actor 1 is upserted as an admin, actor 2 as a plain user, each active or not
Profiles ==
    {[telegram_id |-> 1, is_active |-> a, role |-> "admin"] : a \in BOOLEAN} \cup
    {[telegram_id |-> 2, is_active |-> a, role |-> "user"] : a \in BOOLEAN}
TelegramIds == {1, 2}

\* the clock readings of the model, and the instants a request may name
Clock == NowStart..(NowStart + MaxTicks)
NoneOr(S) == {None} \cup {Some(x) : x \in S}

----------------------------------------------------------------------------
(* The bot: message texts as sequences of code points *)

START == <<"/","s","t","a","r","t">>
MENU == <<"/","m","e","n","u">>
SUMMARY_BTN == <<"U+1F4CA"," ","S","u","m","m","a","r","y">>
EXPENSE_BTN == <<"U+2796"," ","E","x","p","e","n","s","e">>
INCOME_BTN == <<"U+2795"," ","I","n","c","o","m","e">>
MANUAL_BTN == <<"U+270D","U+FE0F"," ","E","n","t","e","r"," ","m","a","n","u","a","l">>
CANCEL_BTN == <<"U+2B05","U+FE0F"," ","C","a","n","c","e","l">>
SPACES_BTN == <<"U+1F3E6"," ","S","p","a","c","e","s">>
BACK_BTN == <<"U+2B05","U+FE0F"," ","B","a","c","k">>
LIST_SPACES_BTN == <<"U+1F4CB"," ","L","i","s","t"," ","S","p","a","c","e","s">>
TO_SPACE_BTN == <<"U+2795"," ","T","o"," ","S","p","a","c","e">>
FROM_SPACE_BTN == <<"U+2796"," ","F","r","o","m"," ","S","p","a","c","e">>

\* message.text or "": a message without text reads as the empty text
TextOf(message) == Or(message, <<>>)

\* word in text
Contains(text, word) ==
    \E i \in 1..(Len(text) - Len(word) + 1) :
        SubSeq(text, i, i + Len(word) - 1) = word

\* text.replace(old, new) for single characters
replace(text, old, new) ==
    [i \in 1..Len(text) |-> IF text[i] = old THEN new ELSE text[i]]

Digits == {"0","1","2","3","4","5","6","7","8","9"}
DigitValue(c) ==
    CASE c = "0" -> 0 [] c = "1" -> 1 [] c = "2" -> 2 [] c = "3" -> 3
      [] c = "4" -> 4 [] c = "5" -> 5 [] c = "6" -> 6 [] c = "7" -> 7
      [] c = "8" -> 8 [] c = "9" -> 9

RECURSIVE NaturalOf(_)
NaturalOf(digits) ==
    IF digits = <<>> THEN 0
    ELSE 10 * NaturalOf(SubSeq(digits, 1, Len(digits) - 1))
         + DigitValue(digits[Len(digits)])

\* the first three decimals, as thousandths
Thousandths(frac) ==
    NaturalOf(SubSeq(frac \o <<"0","0","0">>, 1, 3))

NAN == <<"n","a","n">>

\* float(text), for texts made of blanks, a sign, digits, one point, or the
\* word nan in any case: the number in thousandths, not-a-number, or ValueError
float(text) ==
    LET s == strip(text)
        signed == s # <<>> /\ s[1] \in {"+", "-"}
        sign == IF signed /\ s[1] = "-" THEN -1 ELSE 1
        body == IF signed THEN Tail(s) ELSE s
        points == {i \in 1..Len(body) : body[i] = "."}
        at == IF points = {} THEN Len(body) + 1
              ELSE CHOOSE i \in points : \A j \in points : i <= j
        whole == SubSeq(body, 1, at - 1)
        frac == SubSeq(body, at + 1, Len(body))
    IN  IF lower(body) = NAN THEN [kind |-> "nan", milli |-> 0]
        ELSE IF /\ Cardinality(points) <= 1
                /\ whole \o frac # <<>>
                /\ \A i \in 1..Len(whole) : whole[i] \in Digits
                /\ \A i \in 1..Len(frac) : frac[i] \in Digits
        THEN [kind |-> "num",
              milli |-> sign * (1000 * NaturalOf(whole) + Thousandths(frac))]
        ELSE [kind |-> "ValueError", milli |-> 0]

\* amount <= 0: every comparison with not-a-number is false
LessOrEqualZero(amount) == amount.kind = "num" /\ amount.milli <= 0

----------------------------------------------------------------------------
(* The bot: one chat, its messages handled one at a time *)

\* message.from_user.id
FromUser == 1

\* the request is sent and its response not yet received
Pending == [status |-> 0, detail |-> "", kind |-> "pending", body |-> None]

\* the handlers in the order of their registration: the first whose filter
\* accepts the message handles it
Handler(message) ==
    IF message \in {Some(START), Some(MENU)} THEN "start"
    ELSE IF message = Some(SUMMARY_BTN) THEN "summary"
    ELSE IF message \in {Some(EXPENSE_BTN), Some(INCOME_BTN)} THEN "begin_add"
    ELSE IF dialogue.state = "AddTx:entering_amount" THEN "enter_amount"
    ELSE IF dialogue.state = "AddTx:entering_category" THEN "enter_category"
    ELSE IF dialogue.state = "AddTx:entering_note" THEN "enter_note"
    ELSE IF message = Some(SPACES_BTN) THEN "spaces_menu"
    ELSE IF message = Some(BACK_BTN) THEN "back_to_main"
    ELSE IF message = Some(LIST_SPACES_BTN) THEN "list_spaces"
    ELSE IF message \in {Some(TO_SPACE_BTN), Some(FROM_SPACE_BTN)}
         THEN "begin_space_transfer"
    ELSE IF dialogue.state = "SpaceTx:entering_amount" THEN "space_enter_amount"
    ELSE IF dialogue.state = "SpaceTx:choosing_space" THEN "space_choose_space"
    ELSE IF dialogue.state = "SpaceTx:entering_note" THEN "space_enter_note"
    ELSE "unhandled"

Receives(handler, message) ==
    /\ dialogue.awaiting = "none"
    /\ Handler(message) = handler

\* the handler runs to its end without a call to the API
Local(d) ==
    /\ dialogue' = d
    /\ UNCHANGED <<users, categories, transactions, spaces, transfers, now,
                   response, admin_token, sessions>>

\* await api.method(...): the handler is suspended until the response is there
Await(method, d) ==
    /\ dialogue' = [d EXCEPT !.awaiting = method]
    /\ response' = Pending
    /\ UNCHANGED <<users, categories, transactions, spaces, transfers, now,
                   admin_token, sessions>>

Returned(method) ==
    /\ dialogue.awaiting = method
    /\ response.kind # "pending"

\* r.raise_for_status(), or the exception of a request that got no response
Raised == response.status \notin 200..299

\* the handler is left: its local variables are gone
Leave(d) == Local([d EXCEPT !.awaiting = "none", !.note = <<>>])

bot_start(message) ==
    /\ Receives("start", message)
    /\ Local(Cleared)

bot_summary(message) ==
    /\ Receives("summary", message)
    /\ Await("summary", dialogue)

bot_summary_resume ==
    /\ Returned("summary")
    /\ Leave(dialogue)

begin_add(message) ==
    /\ Receives("begin_add", message)
    /\ LET tx_type == IF Contains(TextOf(message),
                                  <<"E","x","p","e","n","s","e">>)
                      THEN EXPENSE ELSE INCOME
       IN  Local([dialogue EXCEPT !.type = Some(tx_type),
                                  !.state = "AddTx:entering_amount"])

\* the amount of the message, or the exception of the try block
ParseAmount(message) ==
    IF message = None THEN [kind |-> "AttributeError", milli |-> 0]
    ELSE LET amount == float(replace(message[1], ",", "."))
         IN  IF LessOrEqualZero(amount)
             THEN [kind |-> "ValueError", milli |-> 0]
             ELSE amount

Excepted(amount) == amount.kind \in {"AttributeError", "ValueError"}

enter_amount(message) ==
    /\ Receives("enter_amount", message)
    /\ LET amount == ParseAmount(message)
       IN  IF Excepted(amount) THEN Local(dialogue)
           ELSE Await("top_categories",
                      [dialogue EXCEPT !.amount = Some(amount)])

\* categories is the response or, after an exception, the empty list
enter_amount_resume ==
    /\ Returned("top_categories")
    /\ Leave([dialogue EXCEPT !.state = "AddTx:entering_category"])

enter_category(message) ==
    /\ Receives("enter_category", message)
    /\ LET text == strip(TextOf(message))
       IN  IF text = CANCEL_BTN THEN Local(Cleared)
           ELSE IF text = MANUAL_BTN THEN Local(dialogue)
           ELSE Local([dialogue EXCEPT !.category_name = Some(text),
                                       !.state = "AddTx:entering_note"])

\* the note of the message: "-" stands for none
NoteOf(message) ==
    LET note == strip(TextOf(message))
    IN  IF note = <<"-">> THEN <<>> ELSE note

enter_note(message) ==
    /\ Receives("enter_note", message)
    /\ Await("create_transaction", [dialogue EXCEPT !.note = NoteOf(message)])

enter_note_resume ==
    /\ Returned("create_transaction")
    /\ IF Raised THEN Leave(dialogue) ELSE Local(Cleared)

spaces_menu(message) ==
    /\ Receives("spaces_menu", message)
    /\ Local(Cleared)

back_to_main(message) ==
    /\ Receives("back_to_main", message)
    /\ Local(Cleared)

bot_list_spaces(message) ==
    /\ Receives("list_spaces", message)
    /\ Await("list_spaces", dialogue)

bot_list_spaces_resume ==
    /\ Returned("list_spaces")
    /\ Leave(dialogue)

bot_begin_space_transfer(message) ==
    /\ Receives("begin_space_transfer", message)
    /\ LET direction == IF Contains(TextOf(message),
                                    <<"T","o"," ","S","p","a","c","e">>)
                        THEN TO_SPACE ELSE FROM_SPACE
       IN  Local([dialogue EXCEPT !.direction = Some(direction),
                                  !.state = "SpaceTx:entering_amount"])

space_enter_amount(message) ==
    /\ Receives("space_enter_amount", message)
    /\ LET amount == ParseAmount(message)
       IN  IF Excepted(amount) THEN Local(dialogue)
           ELSE Await("top_spaces",
                      [dialogue EXCEPT !.amount = Some(amount),
                                       !.state = "SpaceTx:choosing_space"])

space_enter_amount_resume ==
    /\ Returned("top_spaces")
    /\ Leave(dialogue)

space_choose_space(message) ==
    /\ Receives("space_choose_space", message)
    /\ LET text == strip(TextOf(message))
       IN  IF text = CANCEL_BTN THEN Local(Cleared)
           ELSE IF text = MANUAL_BTN \/ text = <<>> THEN Local(dialogue)
           ELSE Local([dialogue EXCEPT !.space_name = Some(text),
                                       !.state = "SpaceTx:entering_note"])

space_enter_note(message) ==
    /\ Receives("space_enter_note", message)
    /\ Await("space_transfer", [dialogue EXCEPT !.note = NoteOf(message)])

space_enter_note_resume ==
    /\ Returned("space_transfer")
    /\ IF Raised THEN Leave(dialogue) ELSE Local(Cleared)

\* the API receives the request the bot awaits
Requested(method) ==
    /\ dialogue.awaiting = method
    /\ response.kind = "pending"

\* amount: float = Field(gt=0), on the body as the bot sent it
AmountValid(amount) == amount.kind = "num" /\ amount.milli > 0

get_summary ==
    /\ Requested("summary")
    /\ summary(FromUser, None, None)

get_categories_top ==
    /\ Requested("top_categories")
    /\ top_categories(FromUser, dialogue.type[1])

post_transactions ==
    /\ Requested("create_transaction")
    /\ LET amount == dialogue.amount[1]
       IN  IF ~AmountValid(amount) THEN Raise(422, "Unprocessable Entity")
           ELSE create_transaction(FromUser, dialogue.type[1], amount.milli,
                                   dialogue.category_name[1], None,
                                   dialogue.note)

get_spaces ==
    /\ Requested("list_spaces")
    /\ list_spaces(FromUser)

get_spaces_top ==
    /\ Requested("top_spaces")
    /\ top_spaces(FromUser)

post_spaces_transfer ==
    /\ Requested("space_transfer")
    /\ LET amount == dialogue.amount[1]
       IN  IF ~AmountValid(amount) THEN Raise(422, "Unprocessable Entity")
           ELSE space_transfer(FromUser, dialogue.space_name[1],
                               dialogue.direction[1], amount.milli, None,
                               dialogue.note)

\* the request gets no response: httpx raises, nothing reaches the API
ConnectError ==
    /\ dialogue.awaiting # "none"
    /\ response.kind = "pending"
    /\ response' = [status |-> 0, detail |-> "ConnectError", kind |-> "error",
                    body |-> None]
    /\ UNCHANGED <<users, categories, transactions, spaces, transfers, now,
                   admin_token, sessions, dialogue>>

----------------------------------------------------------------------------
(* Spec: the whole API, one request at a time *)

TypeInputs == {INCOME, Padded(<<"E">> \o Tail(EXPENSE)), GIFT}
CategoryInputs == {FOOD, Padded(FOOD)}
DirectionInputs == {TO_SPACE, Padded(FROM_SPACE), GIFT}
SpaceInputs == {CAR, Padded(CAR)}

Next ==
    \/ \E c \in Credentials, p \in Profiles :
            admin_upsert_user(c, p.telegram_id, "Ann", p.is_active, p.role)
    \/ \E t \in TelegramIds, ty \in TypeInputs, n \in CategoryInputs :
            /\ create_transaction(t, ty, 10, n, None, "")
            /\ Cardinality(transactions') <= MaxRows
    \/ \E x \in 1..MaxRows, t \in TelegramIds : delete_transaction(x, t)
    \/ \E t \in TelegramIds : summary(t, None, None)
    \/ \E t \in TelegramIds, ty \in {INCOME, EXPENSE, GIFT} : top_categories(t, ty)
    \/ \E t \in TelegramIds : top_spaces(t)
    \/ \E t \in TelegramIds : list_spaces(t)
    \/ \E t \in TelegramIds, d \in DirectionInputs, n \in SpaceInputs :
            /\ space_transfer(t, n, d, 10, None, "")
            /\ Cardinality(transfers') <= MaxRows

Spec == Init /\ [][Next]_vars

----------------------------------------------------------------------------
(* SpecLedger: one user's transactions of several amounts and dates, and   *)
(* their summary over several periods                                      *)

LedgerEntries == {<<INCOME, PAY, 10>>, <<INCOME, PAY, 20>>, <<EXPENSE, FOOD, 6>>}
LedgerDates == {NowStart - 1, NowStart + 1}

NextLedger ==
    \/ admin_upsert_user(Some(SECRET), 1, "Ann", TRUE, "user")
    \/ \E e \in LedgerEntries, h \in NoneOr(LedgerDates) :
            /\ create_transaction(1, e[1], e[3], e[2], h, "")
            /\ Cardinality(transactions') <= MaxTx
    \/ \E x \in 1..MaxTx : delete_transaction(x, 1)
    \/ \E st \in NoneOr({NowStart}), en \in NoneOr({NowStart + 1}) :
            summary(1, st, en)

SpecLedger == Init /\ [][NextLedger]_vars

----------------------------------------------------------------------------
(* SpecFrame: transactions of two categories stored and deleted beside a   *)
(* space that holds money                                                  *)

FrameEntries == {<<INCOME, PAY>>, <<EXPENSE, FOOD>>}

NextFrame ==
    \/ admin_upsert_user(Some(SECRET), 1, "Ann", TRUE, "user")
    \/ \E e \in FrameEntries :
            /\ create_transaction(1, e[1], 10, e[2], None, "")
            /\ Cardinality(transactions') <= MaxTx
    \/ \E x \in 1..MaxTx : delete_transaction(x, 1)
    \/ /\ space_transfer(1, CAR, TO_SPACE, 10, None, "")
       /\ Cardinality(transfers') <= MaxRows

SpecFrame == Init /\ [][NextFrame]_vars

----------------------------------------------------------------------------
(* SpecSpaces: one user's transfers of several amounts to and from two     *)
(* spaces                                                                  *)

SpacesNames == {CAR, Padded(TRIP)}
SpacesAmounts == {4, 10, 20}

NextSpaces ==
    \/ \E a \in BOOLEAN : admin_upsert_user(Some(SECRET), 1, "Ann", a, "user")
    \/ \E n \in SpacesNames, d \in {TO_SPACE, FROM_SPACE},
          a \in SpacesAmounts :
            /\ space_transfer(1, n, d, a, None, "")
            /\ Cardinality(transfers') <= MaxTr
    \/ list_spaces(1)

SpecSpaces == Init /\ [][NextSpaces]_vars

----------------------------------------------------------------------------
(* SpecCash: transactions and transfers of several dates, and the cash     *)
(* balance of several periods                                              *)

CashEntries == {<<INCOME, PAY, 1000>>, <<EXPENSE, FOOD, 100>>}
CashMoves == {<<TO_SPACE, 20>>, <<FROM_SPACE, 10>>}
CashDates == {NowStart - 1, NowStart + 1}

NextCash ==
    \/ admin_upsert_user(Some(SECRET), 1, "Ann", TRUE, "user")
    \/ \E e \in CashEntries, h \in NoneOr(CashDates) :
            /\ create_transaction(1, e[1], e[3], e[2], h, "")
            /\ Cardinality(transactions') <= MaxRows
    \/ \E e \in CashMoves, h \in NoneOr(CashDates) :
            /\ space_transfer(1, CAR, e[1], e[2], h, "")
            /\ Cardinality(transfers') <= MaxTr
    \/ \E st \in NoneOr({NowStart}), en \in NoneOr({NowStart + 1}) :
            summary(1, st, en)

SpecCash == Init /\ [][NextCash]_vars

----------------------------------------------------------------------------
(* SpecAssets: transfers of two dates to and from two spaces, the balances *)
(* listed and the summary of two periods                                   *)

AssetsDates == {NowStart + 1}

NextAssets ==
    \/ admin_upsert_user(Some(SECRET), 1, "Ann", TRUE, "user")
    \/ /\ create_transaction(1, INCOME, 1000, PAY, None, "")
       /\ Cardinality(transactions') <= MaxRows
    \/ \E e \in CashMoves, n \in {CAR, TRIP}, h \in NoneOr(AssetsDates) :
            /\ space_transfer(1, n, e[1], e[2], h, "")
            /\ Cardinality(transfers') <= MaxTr
    \/ \E p \in {<<None, None>>, <<Some(NowStart), Some(NowStart + 1)>>} :
            summary(1, p[1], p[2])
    \/ list_spaces(1)

SpecAssets == Init /\ [][NextAssets]_vars

----------------------------------------------------------------------------
(* SpecUsers: upserts of two actors with every credential, name, flag and  *)
(* role, and requests whose outcome depends on the actor's row             *)

UsersCredentials == Credentials \cup {Some("")}
\* the name, active flag and role an upsert gives
UsersProfiles ==
    {<<"Ann", TRUE, "user">>, <<"Ann", TRUE, "admin">>, <<"Bob", FALSE, "owner">>}

NextUsers ==
    \/ \E c \in UsersCredentials, t \in TelegramIds, p \in UsersProfiles :
            admin_upsert_user(c, t, p[1], p[2], p[3])
    \/ \E t \in TelegramIds :
            /\ create_transaction(t, INCOME, 10, PAY, None, "")
            /\ Cardinality(transactions') <= MaxRows
    \/ \E x \in 1..MaxRows, t \in TelegramIds : delete_transaction(x, t)
    \/ \E t \in TelegramIds : list_spaces(t)

SpecUsers == Init /\ [][NextUsers]_vars

----------------------------------------------------------------------------
(* SpecTop: transactions and transfers dated now, before the 30-day window *)
(* and after the present, and the most used names as the clock advances    *)

TopDates == {Since(NowStart) - 1, NowStart + MaxTicks + 1}

NextTop ==
    \/ admin_upsert_user(Some(SECRET), 1, "Ann", TRUE, "user")
    \/ \E e \in {<<INCOME, PAY>>, <<INCOME, FOOD>>}, h \in NoneOr(TopDates) :
            /\ create_transaction(1, e[1], 10, e[2], h, "")
            /\ Cardinality(transactions') <= MaxTx
    \/ \E h \in NoneOr(TopDates) :
            /\ space_transfer(1, CAR, TO_SPACE, 10, h, "")
            /\ Cardinality(transfers') <= MaxRows
    \/ \E ty \in {INCOME, EXPENSE} : top_categories(1, ty)
    \/ top_spaces(1)
    \/ Tick

SpecTop == Init /\ [][NextTop]_vars

----------------------------------------------------------------------------
(* SpecClock: the summary asked for with and without bounds, on every day  *)
(* of more than a year                                                     *)

ClockStarts == NoneOr({NowStart})
ClockEnds == NoneOr({NowStart + 1})

NextClock ==
    \/ admin_upsert_user(Some(SECRET), 1, "Ann", TRUE, "user")
    \/ \E st \in ClockStarts, en \in ClockEnds : summary(1, st, en)
    \/ Tick
    \/ Elapse(1)

SpecClock == Init /\ [][NextClock]_vars

----------------------------------------------------------------------------
(* SpecNames: transactions and transfers whose category and space names    *)
(* are padded, blank or empty                                              *)

NamesInputs == {<<>>, <<" ", "\t">>, Padded(FOOD), CAR}

NextNames ==
    \/ admin_upsert_user(Some(SECRET), 1, "Ann", TRUE, "user")
    \/ \E n \in NamesInputs, ty \in {INCOME, EXPENSE} :
            /\ create_transaction(1, ty, 10, n, None, "")
            /\ Cardinality(transactions') <= MaxTx
    \/ \E n \in NamesInputs, d \in {TO_SPACE, FROM_SPACE} :
            /\ space_transfer(1, n, d, 10, None, "")
            /\ Cardinality(transfers') <= MaxTr

SpecNames == Init /\ [][NextNames]_vars

----------------------------------------------------------------------------
(* SpecResolve: one user's transactions and transfers naming two           *)
(* categories and two spaces, each spelled in two ways                     *)

ResolveTypes == {INCOME, Padded(<<"E">> \o Tail(EXPENSE))}
ResolveCategories == {FOOD, Padded(FOOD), PAY}
ResolveSpaces == {CAR, Padded(CAR), TRIP}

NextResolve ==
    \/ admin_upsert_user(Some(SECRET), 1, "Ann", TRUE, "user")
    \/ \E ty \in ResolveTypes, n \in ResolveCategories :
            /\ create_transaction(1, ty, 10, n, None, "")
            /\ Cardinality(transactions') <= MaxTx
    \/ \E n \in ResolveSpaces :
            /\ space_transfer(1, n, TO_SPACE, 10, None, "")
            /\ Cardinality(transfers') <= MaxTr

SpecResolve == Init /\ [][NextResolve]_vars

----------------------------------------------------------------------------
(* SpecConc: two workers handle requests of one user at the same time      *)

NextConc ==
    \/ admin_upsert_user(Some(SECRET), 1, "Ann", TRUE, "user")
    \/ \E w \in Workers, ty \in {INCOME, EXPENSE} :
            begin_create_transaction(w, 1, ty, 10, FOOD, None, "")
    \/ \E w \in Workers : select_category(w)
    \/ \E w \in Workers : insert_category(w)
    \/ \E w \in Workers :
            /\ insert_transaction(w)
            /\ Cardinality(transactions') <= MaxTx
    \/ \E w \in Workers, d \in {TO_SPACE, FROM_SPACE} :
            begin_space_transfer(w, 1, CAR, d, 10, None, "")
    \/ \E w \in Workers : select_space(w)
    \/ \E w \in Workers : insert_space(w)
    \/ \E w \in Workers : select_balance(w)
    \/ \E w \in Workers :
            /\ insert_transfer(w)
            /\ Cardinality(transfers') <= MaxTr + 1

SpecConc == Init /\ [][NextConc]_vars

----------------------------------------------------------------------------
(* SpecBot: one chat of the bot in front of the API *)

\* the commands and buttons the text filters accept
Buttons ==
    {Some(START), Some(MENU), Some(SUMMARY_BTN), Some(EXPENSE_BTN),
     Some(INCOME_BTN), Some(SPACES_BTN), Some(BACK_BTN),
     Some(LIST_SPACES_BTN), Some(TO_SPACE_BTN), Some(FROM_SPACE_BTN)}

\* what the user answers when asked for an amount, a name, a note; None is
\* a message without text
AmountMessages ==
    {None, Some(<<"1","2",",","5">>), Some(<<"0">>), Some(<<"-","5">>),
     Some(NAN), Some(FOOD)}
CategoryMessages == {None, Some(Padded(FOOD)), Some(CANCEL_BTN), Some(MANUAL_BTN)}
SpaceMessages == {None, Some(Padded(CAR)), Some(CANCEL_BTN), Some(MANUAL_BTN)}
NoteMessages == {None, Some(<<"-">>)}

NextBot ==
    \/ /\ dialogue.awaiting = "none"
       /\ \E a \in BOOLEAN :
            admin_upsert_user(Some(SECRET), FromUser, "Ann", a, "user")
    \/ \E m \in Buttons : bot_start(m)
    \/ \E m \in Buttons : bot_summary(m)
    \/ bot_summary_resume
    \/ \E m \in Buttons : begin_add(m)
    \/ \E m \in AmountMessages : enter_amount(m)
    \/ enter_amount_resume
    \/ \E m \in CategoryMessages : enter_category(m)
    \/ \E m \in NoteMessages : enter_note(m)
    \/ enter_note_resume
    \/ \E m \in Buttons : spaces_menu(m)
    \/ \E m \in Buttons : back_to_main(m)
    \/ \E m \in Buttons : bot_list_spaces(m)
    \/ bot_list_spaces_resume
    \/ \E m \in Buttons : bot_begin_space_transfer(m)
    \/ \E m \in AmountMessages : space_enter_amount(m)
    \/ space_enter_amount_resume
    \/ \E m \in SpaceMessages : space_choose_space(m)
    \/ \E m \in NoteMessages : space_enter_note(m)
    \/ space_enter_note_resume
    \/ get_summary
    \/ get_categories_top
    \/ post_transactions /\ Cardinality(transactions') <= MaxRows
    \/ get_spaces
    \/ get_spaces_top
    \/ post_spaces_transfer /\ Cardinality(transfers') <= MaxRows
    \/ ConnectError

SpecBot == Init /\ [][NextBot]_vars

----------------------------------------------------------------------------
(* Properties *)

\* the derived balance of a space: its to_space cents minus its from_space cents
DerivedBalance(space_id) ==
    SumAmount({r \in transfers : r.space_id = space_id /\ r.direction = TO_SPACE})
    - SumAmount({r \in transfers : r.space_id = space_id /\ r.direction = FROM_SPACE})

\* the balance a transfer naming `name` finds: 0 when no such space exists yet
BalanceOfName(name) ==
    IF \E s \in spaces : s.name = name
    THEN DerivedBalance((CHOOSE s \in spaces : s.name = name).id)
    ELSE 0

\* the step appends exactly one transfer, of this direction and amount, to the
\* space of this name
AppendsTransfer(name, direction, cents) ==
    \E r \in transfers' :
        /\ r \notin transfers
        /\ transfers' = transfers \cup {r}
        /\ r.direction = direction
        /\ r.amount_cents = cents
        /\ \E s \in spaces' : s.name = name /\ s.id = r.space_id

\* C1: with the transfers handled one at a time, the derived balance of every
\* space is at least 0 in every reachable state.
C1_BalanceNeverNegative == \A sp \in spaces : DerivedBalance(sp.id) >= 0

\* a space that was paid into and then emptied by a from_space transfer
C1_Witness ==
    \E sp \in spaces :
        /\ \E r \in transfers :
              r.space_id = sp.id /\ r.direction = FROM_SPACE /\ r.amount_cents > 0
        /\ DerivedBalance(sp.id) = 0

\* C2: a from_space transfer of more cents than the balance B of the space is
\* refused with "Not enough money in space" and appends nothing; one of at
\* most B cents appends exactly one from_space row; a to_space transfer is
\* never refused for lack of funds and appends one to_space row.
C2_FromSpaceChecked ==
    [][\A n \in SpacesNames, a \in SpacesAmounts :
          /\ (UserAllowed(1) /\ space_transfer(1, n, FROM_SPACE, a, None, "")) =>
                IF ToCents(a) > BalanceOfName(strip(n))
                THEN /\ response'.status = 400
                     /\ response'.detail = "Not enough money in space"
                     /\ transfers' = transfers
                ELSE /\ response'.status = 200
                     /\ AppendsTransfer(strip(n), FROM_SPACE, ToCents(a))
          /\ (UserAllowed(1) /\ space_transfer(1, n, TO_SPACE, a, None, "")) =>
                /\ response'.status = 200
                /\ AppendsTransfer(strip(n), TO_SPACE, ToCents(a))]_vars

\* a refused withdrawal from a space that holds money and has been drawn on
C2_Witness ==
    /\ response.detail = "Not enough money in space"
    /\ \E sp \in spaces :
          /\ DerivedBalance(sp.id) > 0
          /\ \E r \in transfers : r.space_id = sp.id /\ r.direction = FROM_SPACE

\* C3: a request answered with a failure (400, 403 or 404) leaves users,
\* categories, transactions, spaces and space transfers as they were.
C3_FailureChangesNothing ==
    [][(response'.kind = "error" /\ response'.status \in {400, 403, 404})
          => UNCHANGED store]_vars

\* the step appends exactly one transaction, of the category of this id
AppendsTransaction(category_id) ==
    \E t \in transactions' :
        /\ t \notin transactions
        /\ transactions' = transactions \cup {t}
        /\ t.category_id = category_id

\* C6: a category name met for the first time gets one new row; met again with
\* the same type it resolves to the id of that row and no row is added; met
\* with the other type the request fails with "Category type mismatch" and
\* adds neither a category nor a transaction.  A space name likewise gets one
\* row the first time and resolves to its id afterwards.
C6_ResolvedOnce ==
    [][/\ \A ty \in ResolveTypes, n \in ResolveCategories :
            (UserAllowed(1) /\ create_transaction(1, ty, 10, n, None, "")) =>
                LET name == strip(n)
                    tx_type == lower(strip(ty))
                    known == {c \in categories : c.name = name}
                IN  IF known = {}
                    THEN \E c \in categories' :
                            /\ c \notin categories
                            /\ categories' = categories \cup {c}
                            /\ c.name = name /\ c.type = tx_type
                            /\ AppendsTransaction(c.id)
                    ELSE IF \E c \in known : c.type = tx_type
                    THEN /\ categories' = categories
                         /\ \E c \in known : AppendsTransaction(c.id)
                    ELSE /\ response'.status = 400
                         /\ response'.detail = "Category type mismatch"
                         /\ categories' = categories
                         /\ transactions' = transactions
       /\ \A n \in ResolveSpaces :
            (UserAllowed(1) /\ space_transfer(1, n, TO_SPACE, 10, None, "")) =>
                LET name == strip(n)
                    known == {sp \in spaces : sp.name = name}
                IN  /\ IF known = {}
                       THEN \E sp \in spaces' :
                               /\ sp \notin spaces
                               /\ spaces' = spaces \cup {sp}
                               /\ sp.name = name
                       ELSE spaces' = spaces
                    /\ AppendsTransfer(name, TO_SPACE, ToCents(10))
       /\ \A c, d \in categories' : c.name = d.name => c = d
       /\ \A sp, sq \in spaces' : sp.name = sq.name => sp = sq]_vars

\* a category and a space each resolved twice, then the category named with
\* the other type
C6_Witness ==
    /\ response.detail = "Category type mismatch"
    /\ \E t, u \in transactions : t # u /\ t.category_id = u.category_id
    /\ \E r, q \in transfers : r # q /\ r.space_id = q.space_id

\* the category names and types the requests of Spec spell, normalised
NormalCategory == [n \in CategoryInputs |-> strip(n)]
NormalType == [ty \in TypeInputs |-> lower(strip(ty))]

\* C7: a Category row, once stored, stays in the table with the same id, name
\* and type through every request; a create_transaction naming it with the
\* other type is rejected and stores no transaction.
C7_CategoryFixed ==
    [][/\ \A c \in categories : c \in categories'
       /\ \A c \in categories, n \in CategoryInputs, ty \in TypeInputs,
             t \in TelegramIds :
            (/\ c.name = NormalCategory[n]
             /\ NormalType[ty] \in {INCOME, EXPENSE}
             /\ c.type # NormalType[ty]
             /\ UserAllowed(t)
             /\ create_transaction(t, ty, 10, n, None, "")) =>
                /\ response'.status = 400
                /\ response'.detail = "Category type mismatch"
                /\ transactions' = transactions]_vars

\* a category left without transactions, named again with the other type
C7_Witness ==
    /\ response.detail = "Category type mismatch"
    /\ categories # {}
    /\ transactions = {}

\* C8: for an active actor, delete_transaction of an existing transaction
\* removes the row when the actor is an admin or created it, and otherwise
\* fails with 403 "Forbidden" leaving the row; an id of no transaction fails
\* with 404.
C8_DeleteRule ==
    [][\A x \in 1..MaxRows, t \in TelegramIds :
          (UserAllowed(t) /\ delete_transaction(x, t)) =>
              IF \E tx \in transactions : tx.id = x
              THEN LET tx == CHOOSE r \in transactions : r.id = x
                       actor == CHOOSE u \in users : u.telegram_id = t
                   IN  IF actor.role = "admin" \/ tx.created_by_telegram_id = t
                       THEN /\ response'.status = 200
                            /\ transactions' = transactions \ {tx}
                       ELSE /\ response'.status = 403
                            /\ response'.detail = "Forbidden"
                            /\ transactions' = transactions
              ELSE /\ response'.status = 404
                   /\ transactions' = transactions]_vars

\* a delete refused to an actor who is neither admin nor creator: the row remains
C8_Witness ==
    /\ response.status = 403
    /\ response.detail = "Forbidden"
    /\ transactions # {}

\* the cents of the stored rows of `rows` dated within [start, end)
StoredCents(rows, start, end) ==
    SumAmount({r \in rows : start <= r.happened_at /\ r.happened_at < end})

\* C9: the income_total and expense_total of a summary are the sums of
\* amount_cents over the stored income and expense transactions dated within
\* [start, end) of the summary.
C9_PeriodTotals ==
    response.kind = "summary" =>
        LET b == response.body
        IN  /\ b.income_total =
                 [num |-> StoredCents({tx \in transactions : tx.type = INCOME},
                                      b.start, b.end),
                  den |-> 100]
            /\ b.expense_total =
                 [num |-> StoredCents({tx \in transactions : tx.type = EXPENSE},
                                      b.start, b.end),
                  den |-> 100]

\* a summary taken after a deletion, with one transaction counted and one dated
\* at the end of the period left out
C9_Witness ==
    /\ response.kind = "summary"
    /\ response.body.income_total.num + response.body.expense_total.num > 0
    /\ \E tx \in transactions : tx.happened_at = response.body.end
    /\ \A tx \in transactions : tx.id > 1

\* C10: the cash_balance of a summary is its period income minus its period
\* expense, minus the to_space transfers and plus the from_space transfers
\* dated within [start, end).
C10_CashBalance ==
    response.kind = "summary" =>
        LET b == response.body
        IN  b.cash_balance =
              [num |-> (StoredCents({tx \in transactions : tx.type = INCOME},
                                    b.start, b.end)
                        - StoredCents({tx \in transactions : tx.type = EXPENSE},
                                      b.start, b.end))
                       - StoredCents({r \in transfers : r.direction = TO_SPACE},
                                     b.start, b.end)
                       + StoredCents({r \in transfers : r.direction = FROM_SPACE},
                                     b.start, b.end),
               den |-> 100]

\* a summary whose period holds a transaction and a to_space transfer, while a
\* from_space transfer dated at its end is left out
C10_Witness ==
    /\ response.kind = "summary"
    /\ \E tx \in transactions :
          response.body.start <= tx.happened_at /\ tx.happened_at < response.body.end
    /\ \E r \in transfers :
          /\ r.direction = TO_SPACE
          /\ response.body.start <= r.happened_at /\ r.happened_at < response.body.end
    /\ \E r \in transfers :
          r.direction = FROM_SPACE /\ r.happened_at = response.body.end

\* C4: without a lock around the read of the balance and the insert, two
\* from_space requests can both pass the check and overdraw the space: a
\* negative balance is reachable (witness), and every step that makes a
\* balance negative is the insert of a from_space transfer that passed the
\* check against a balance read before another transfer of that space was
\* inserted.
C4_OverdrawOnlyByRace ==
    [][\A sp \in spaces :
          (/\ SpaceBalance(transfers, sp.id) >= 0
           /\ SpaceBalance(transfers', sp.id) < 0) =>
              \E w \in Workers :
                  /\ sessions[w].pc = "insert_transfer"
                  /\ sessions'[w].pc = "idle"
                  /\ sessions[w].kind = FROM_SPACE
                  /\ sessions[w].ref_id = sp.id
                  /\ sessions[w].amount_cents <= sessions[w].balance_c
                  /\ sessions[w].balance_c # SpaceBalance(transfers, sp.id)]_vars

\* both withdrawals are stored and the space is overdrawn
C4_Witness ==
    \E sp \in spaces :
        /\ DerivedBalance(sp.id) < 0
        /\ Cardinality({r \in transfers :
               r.space_id = sp.id /\ r.direction = FROM_SPACE}) >= 2

\* C5: whatever the interleaving of requests that name the same new category
\* or space, no two Category rows and no two Space rows have the same name.
C5_NamesUnique ==
    /\ \A c, d \in categories : c.name = d.name => c = d
    /\ \A sp, sq \in spaces : sp.name = sq.name => sp = sq

\* two requests found the category missing; one stored it and the other's
\* insert was refused
C5_Witness ==
    /\ response.status = 500
    /\ Cardinality(categories) = 1
    /\ spaces = {}

\* the sum of the derived balances of the spaces of `sps`, over all time
RECURSIVE DerivedTotal(_)
DerivedTotal(sps) ==
    IF sps = {} THEN 0
    ELSE LET sp == CHOOSE x \in sps : TRUE
         IN  DerivedBalance(sp.id) + DerivedTotal(sps \ {sp})

\* C11: the total_assets of a summary is its cash_balance plus its
\* spaces_total, and its spaces_total is the sum over every space of the
\* derived balance over all time, whatever the period of the summary.
C11_TotalAssets ==
    response.kind = "summary" =>
        LET b == response.body
        IN  /\ b.total_assets.num = b.cash_balance.num + b.spaces_total.num
            /\ b.total_assets.den = 100
            /\ b.spaces_total = [num |-> DerivedTotal(spaces), den |-> 100]

\* a summary over a period that leaves out a transfer of a space, with two
\* spaces holding money
C11_Witness ==
    /\ response.kind = "summary"
    /\ \E r \in transfers :
          ~(response.body.start <= r.happened_at /\ r.happened_at < response.body.end)
    /\ \E sp, sq \in spaces :
          sp # sq /\ DerivedBalance(sp.id) > 0 /\ DerivedBalance(sq.id) > 0
    /\ response.body.total_assets.num # response.body.cash_balance.num

\* C12: every stored Transaction row and every stored SpaceTransfer row has
\* amount_cents of at least 1.
C12_AmountsAtLeastOne ==
    /\ \A tx \in transactions : tx.amount_cents >= 1
    /\ \A r \in transfers : r.amount_cents >= 1

\* the actor has no User row, or a row that is not active
NotAllowed(t) == ~\E u \in users : u.telegram_id = t /\ u.is_active

\* the request is refused as one of an actor who is not allowed
Forbidden403 ==
    /\ response'.status = 403
    /\ response'.detail = "User not allowed"
    /\ UNCHANGED store

\* C13: every operation other than the admin upsert, called by an actor
\* without a User row or with an inactive one, fails with 403 "User not
\* allowed" whatever its other arguments, valid or not, and leaves the store
\* as it was.
C13_ForbiddenFirst ==
    [][\A t \in TelegramIds :
          NotAllowed(t) =>
            /\ \A ty \in TypeInputs, n \in CategoryInputs :
                  create_transaction(t, ty, 10, n, None, "") => Forbidden403
            /\ \A x \in 1..MaxRows : delete_transaction(x, t) => Forbidden403
            /\ summary(t, None, None) => Forbidden403
            /\ \A ty \in {INCOME, EXPENSE, GIFT} :
                  top_categories(t, ty) => Forbidden403
            /\ top_spaces(t) => Forbidden403
            /\ list_spaces(t) => Forbidden403
            /\ \A d \in DirectionInputs, n \in SpaceInputs :
                  space_transfer(t, n, d, 10, None, "") => Forbidden403]_vars

\* an actor who stored a transaction and a transfer, made inactive, is refused
C13_Witness ==
    /\ response.status = 403
    /\ response.detail = "User not allowed"
    /\ \E u \in users :
          /\ ~u.is_active
          /\ \E tx \in transactions : tx.created_by_telegram_id = u.telegram_id
          /\ \E r \in transfers : r.created_by_telegram_id = u.telegram_id

\* C14: every stored User has the role 'user' or the role 'admin'.
C14_RoleUserOrAdmin == \A u \in users : u.role \in {"user", "admin"}

\* C18: an upsert whose credential is present and equal to the configured,
\* non-empty admin token succeeds; with an absent or different credential,
\* and always when the configured token is empty, it fails with 401
\* "Unauthorized" and the User table stays as it was.  No other request
\* changes the User table.
C18_AdminOnly ==
    [][/\ \A c \in UsersCredentials, t \in TelegramIds, p \in UsersProfiles :
            admin_upsert_user(c, t, p[1], p[2], p[3]) =>
                IF admin_token # "" /\ c # None /\ c[1] = admin_token
                THEN response'.status = 200
                ELSE /\ response'.status = 401
                     /\ response'.detail = "Unauthorized"
                     /\ users' = users
       /\ users' # users => (admin_token # "" /\ response'.kind = "ok")]_vars

\* an upsert refused for its credential after another one was accepted
C18_Witness ==
    /\ admin_token # ""
    /\ response.status = 401
    /\ users # {}

\* C19: no User row is ever removed and no telegram_id has two rows; an
\* accepted upsert leaves the actor with one row, of the id it had if it had
\* one, holding the name, active flag and role just given, and leaves the
\* other rows alone; only an upsert changes the table; and the requests that
\* follow decide by that row: allowed iff it is active, and the deletion of
\* another actor's transaction granted iff its role is 'admin'.
C19_UpsertInPlace ==
    [][/\ \A u \in users :
            \E v \in users' : v.id = u.id /\ v.telegram_id = u.telegram_id
       /\ \A u, v \in users' : u.telegram_id = v.telegram_id => u = v
       /\ users' # users => response'.kind = "ok"
       /\ \A c \in UsersCredentials, t \in TelegramIds, p \in UsersProfiles :
            (admin_upsert_user(c, t, p[1], p[2], p[3])
                /\ response'.status = 200) =>
                \E v \in users' :
                    /\ v.telegram_id = t /\ v.name = p[1]
                    /\ v.is_active = p[2] /\ v.role = p[3]
                    /\ \A u \in users : u.telegram_id = t => u.id = v.id
                    /\ users' \ {v} = {u \in users : u.telegram_id # t}
       /\ \A t \in TelegramIds :
            list_spaces(t) =>
                (response'.status = 200 <=>
                    \E u \in users : u.telegram_id = t /\ u.is_active)
       /\ \A x \in 1..MaxRows, t \in TelegramIds, u \in users,
             tx \in transactions :
            (/\ u.telegram_id = t /\ u.is_active
             /\ tx.id = x /\ tx.created_by_telegram_id # t
             /\ delete_transaction(x, t)) =>
                (response'.status = 200 <=> u.role = "admin")]_vars

\* an actor who stored a transaction while active, upserted again as inactive,
\* is refused
C19_Witness ==
    /\ Cardinality(users) = 2
    /\ response.status = 403
    /\ response.detail = "User not allowed"
    /\ \E u \in users, tx \in transactions :
          tx.created_by_telegram_id = u.telegram_id /\ ~u.is_active /\ u.name = "Bob"

\* the transactions of a type and a category name dated within the 30 days
\* that end at the present
RecentTransactions(type, name) ==
    {tx \in transactions :
        /\ tx.type = type
        /\ \E c \in categories : c.id = tx.category_id /\ c.name = name
        /\ Since(now) <= tx.happened_at /\ tx.happened_at <= now}

\* the transfers of a space name dated within the 30 days that end at the present
RecentTransfers(name) ==
    {r \in transfers :
        /\ \E sp \in spaces : sp.id = r.space_id /\ sp.name = name
        /\ Since(now) <= r.happened_at /\ r.happened_at <= now}

\* `names` are at most TopLimit distinct names of count at least 1, in
\* descending order of count, and no name of `all` left out has a larger count
\* than one of them
MostUsed(names, all, count) ==
    /\ Len(names) <= TopLimit
    /\ \A i, j \in DOMAIN names : i # j => names[i] # names[j]
    /\ \A i \in DOMAIN names : count[names[i]] >= 1
    /\ \A i, j \in DOMAIN names : i < j => count[names[i]] >= count[names[j]]
    /\ \A n \in all :
          (\A i \in DOMAIN names : names[i] # n) =>
              \A i \in DOMAIN names : count[names[i]] >= count[n]

\* C15: top_categories returns at most 6 distinct category names, each with a
\* transaction of the type dated within the 30 days ending at the call, in
\* descending order of the number of such transactions, no name left out
\* having more of them; top_spaces does the same with spaces and transfers.
C15_TopOfWindow ==
    [][/\ \A ty \in {INCOME, EXPENSE} :
            (response'.kind = "names" /\ top_categories(1, ty)) =>
                LET all == {c.name : c \in categories} \cup
                           {response'.body[i] : i \in DOMAIN response'.body}
                IN  MostUsed(response'.body, all,
                        [n \in all |-> Cardinality(RecentTransactions(ty, n))])
       /\ (response'.kind = "names" /\ top_spaces(1)) =>
                LET all == {sp.name : sp \in spaces} \cup
                           {response'.body[i] : i \in DOMAIN response'.body}
                IN  MostUsed(response'.body, all,
                        [n \in all |-> Cardinality(RecentTransfers(n))])]_vars

\* the periods a summary is asked for in SpecAssets, as the handler resolves them
AssetsPeriods ==
    {<<DefaultStart(now), DefaultEnd(now)>>, <<NowStart, NowStart + 1>>}

\* C16: list_spaces returns one entry for every Space, with its id, its name
\* and the balance of its to_space cents minus its from_space cents over all
\* time; the summary of any period reports that same balance for the space.
C16_ListedBalances ==
    /\ response.kind = "spaces" =>
          /\ Len(response.body) = Cardinality(spaces)
          /\ \A sp \in spaces :
                \E i \in DOMAIN response.body :
                    /\ response.body[i].id = sp.id
                    /\ response.body[i].name = sp.name
                    /\ response.body[i].balance =
                          [num |-> DerivedBalance(sp.id), den |-> 100]
                    /\ \A p \in AssetsPeriods :
                          \E j \in DOMAIN SummaryResponse(p[1], p[2]).spaces :
                              SummaryResponse(p[1], p[2]).spaces[j] =
                                  [space |-> sp.name,
                                   balance |-> response.body[i].balance]
    /\ response.kind = "summary" =>
          /\ Len(response.body.spaces) = Cardinality(spaces)
          /\ \A sp \in spaces :
                \E j \in DOMAIN response.body.spaces,
                   i \in DOMAIN ListSpacesResponse :
                    /\ ListSpacesResponse[i].id = sp.id
                    /\ response.body.spaces[j] =
                          [space |-> sp.name,
                           balance |-> ListSpacesResponse[i].balance]

\* the list of two spaces, one paid into and drawn on, with a transfer dated
\* outside the current month
C16_Witness ==
    /\ response.kind = "spaces"
    /\ Len(response.body) = 2
    /\ \E sp \in spaces :
          /\ DerivedBalance(sp.id) > 0
          /\ \E r \in transfers : r.space_id = sp.id /\ r.direction = FROM_SPACE
    /\ \E r \in transfers : r.happened_at >= DefaultEnd(now)

\* C17: a successful create_transaction adds one Transaction row and at most
\* one Category row, and a successful delete_transaction removes the row of
\* the given id only; each leaves the other transactions, the categories
\* already stored, the users, the spaces and the space transfers as they were.
C17_FrameEffects ==
    [][/\ \A e \in FrameEntries :
            (create_transaction(1, e[1], 10, e[2], None, "")
                /\ response'.status = 200) =>
                /\ \E t \in transactions' :
                      t \notin transactions /\ transactions' = transactions \cup {t}
                /\ categories \subseteq categories'
                /\ Cardinality(categories' \ categories) <= 1
                /\ UNCHANGED <<users, spaces, transfers>>
       /\ \A x \in 1..MaxTx :
            (delete_transaction(x, 1) /\ response'.status = 200) =>
                /\ \E t \in transactions :
                      t.id = x /\ transactions' = transactions \ {t}
                /\ UNCHANGED <<users, categories, spaces, transfers>>]_vars

\* both transactions deleted: their two categories remain, and so does the
\* transfer of the space
C17_Witness ==
    /\ response.kind = "ok"
    /\ transactions = {}
    /\ Cardinality(categories) = 2
    /\ \E sp \in spaces : DerivedBalance(sp.id) > 0

\* the days from 1 January EpochYear to the first day of month m of year y
RECURSIVE DaysUntil(_, _)
DaysUntil(y, m) ==
    IF y = EpochYear /\ m = 1 THEN 0
    ELSE IF m = 1 THEN DaysUntil(y - 1, 12) + DaysInMonth(y - 1, 12)
    ELSE DaysUntil(y, m - 1) + DaysInMonth(y, m - 1)

\* the first instant of month m of year y, and of the month after it
MonthStart(y, m) == DaysUntil(y, m) * TicksPerDay
NextMonthStart(y, m) ==
    IF m = 12 THEN MonthStart(y + 1, 1) ELSE MonthStart(y, m + 1)

\* C20: a summary asked for without start or without end, whatever the other
\* bound, covers the current month: from its first instant to the first
\* instant of the month after it; asked for with both, it covers [start, end)
\* as given.
C20_DefaultPeriod ==
    [][\A st \in ClockStarts, en \in ClockEnds :
          (response'.kind = "summary" /\ summary(1, st, en)) =>
              LET d == DateOf(now)
                  b == response'.body
              IN  IF st = None \/ en = None
                  THEN /\ b.start = MonthStart(d.year, d.month)
                       /\ b.end = NextMonthStart(d.year, d.month)
                  ELSE /\ b.start = st[1]
                       /\ b.end = en[1]]_vars

\* a summary of the current month taken on 31 December
C20_Witness ==
    /\ response.kind = "summary"
    /\ DateOf(now) = [year |-> EpochYear, month |-> 12, day |-> 31]
    /\ DateOf(response.body.start) = [year |-> EpochYear, month |-> 12, day |-> 1]
    /\ DateOf(response.body.end) = [year |-> EpochYear + 1, month |-> 1, day |-> 1]
    /\ response.body.end % TicksPerDay = 0

\* C21: every Transaction has the type income or expense and the id of a
\* stored Category of that same type; every SpaceTransfer has the direction
\* to_space or from_space and the id of a stored Space; and no summary names
\* the category 'Unknown'.
C21_ReferencesResolve ==
    /\ \A tx \in transactions :
          /\ tx.type \in {INCOME, EXPENSE}
          /\ \E c \in categories : c.id = tx.category_id /\ c.type = tx.type
    /\ \A r \in transfers :
          /\ r.direction \in {TO_SPACE, FROM_SPACE}
          /\ \E sp \in spaces : sp.id = r.space_id
    /\ response.kind = "summary" =>
          \A i \in DOMAIN response.body.by_category :
              response.body.by_category[i].category # UNKNOWN

\* a summary that names the category of a stored transaction, with a transfer
\* of a space stored too
C21_Witness ==
    /\ response.kind = "summary"
    /\ \E i \in DOMAIN response.body.by_category, c \in categories :
          /\ response.body.by_category[i].category = c.name
          /\ \E tx \in transactions : tx.category_id = c.id
    /\ \E r \in transfers, sp \in spaces : r.space_id = sp.id

\* the periods a summary is asked for in SpecCash, as the handler resolves them
CashPeriods ==
    {<<DefaultStart(NowStart), DefaultEnd(NowStart)>>, <<NowStart, NowStart + 1>>}

\* every stored transaction and transfer is dated within [start, end)
HoldsAll(txs, trs, start, end) ==
    \A r \in txs \cup trs : start <= r.happened_at /\ r.happened_at < end

\* C22: a summary whose period holds every stored transaction and transfer has
\* total_assets equal to income_total minus expense_total; and a transfer
\* appended within the period, in either direction, changes the cash_balance
\* and the spaces_total of that period's summary by opposite amounts and
\* leaves its total_assets as it was.
C22_TransfersKeepAssets ==
    /\ [](response.kind = "summary" =>
            LET b == response.body
            IN  HoldsAll(transactions, transfers, b.start, b.end) =>
                    b.total_assets.num = b.income_total.num - b.expense_total.num)
    /\ [][\A p \in CashPeriods :
            LET a == SummaryResponse(p[1], p[2])
                b == SummaryResponse(p[1], p[2])'
            IN  (/\ transactions' = transactions
                 /\ \E r \in transfers' :
                       /\ r \notin transfers
                       /\ transfers' = transfers \cup {r}
                       /\ p[1] <= r.happened_at /\ r.happened_at < p[2]) =>
                    /\ b.cash_balance.num # a.cash_balance.num
                    /\ b.cash_balance.num - a.cash_balance.num =
                          a.spaces_total.num - b.spaces_total.num
                    /\ b.total_assets = a.total_assets]_vars

\* a summary of a period that holds an expense, money moved into a space and
\* money moved back
C22_Witness ==
    /\ response.kind = "summary"
    /\ HoldsAll(transactions, transfers, response.body.start, response.body.end)
    /\ \E tx \in transactions : tx.type = EXPENSE
    /\ \E r, q \in transfers : r.direction = TO_SPACE /\ q.direction = FROM_SPACE
    /\ response.body.spaces_total.num > 0
    /\ response.body.total_assets.num < 0

\* the name is not empty and neither starts nor ends with whitespace
Trimmed(name) ==
    /\ name # <<>>
    /\ name[1] \notin Whitespace
    /\ name[Len(name)] \notin Whitespace

\* C23: every stored Category name and every stored Space name is non-empty
\* and has no leading or trailing whitespace.
C23_NamesTrimmed ==
    /\ \A c \in categories : Trimmed(c.name)
    /\ \A sp \in spaces : Trimmed(sp.name)

----------------------------------------------------------------------------
(* The add-transaction dialogue of the bot *)

StrictlyPositive(amount) ==
    /\ amount # None
    /\ amount[1].kind = "num"
    /\ amount[1].milli > 0

TypeChosen(d) == d.type \in {Some(INCOME), Some(EXPENSE)}

Enters(state) == dialogue.state # state /\ dialogue'.state = state

SameData(d, e) ==
    /\ d.type = e.type
    /\ d.amount = e.amount
    /\ d.category_name = e.category_name

\* C24: create_transaction is called only in entering_note
C24_CallOnlyInNote ==
    /\ [](dialogue.awaiting = "create_transaction"
            => dialogue.state = "AddTx:entering_note")
    /\ [][transactions' # transactions
            => dialogue.state = "AddTx:entering_note"]_vars

\* C24: entering_note is entered from entering_category with a category text,
\* entering_category from entering_amount with a strictly positive amount,
\* entering_amount with a type chosen by its button
C24_Order ==
    /\ [][/\ Enters("AddTx:entering_note")
             => /\ dialogue.state = "AddTx:entering_category"
                /\ dialogue'.category_name # None
          /\ Enters("AddTx:entering_category")
             => /\ dialogue.state = "AddTx:entering_amount"
                /\ StrictlyPositive(dialogue'.amount)
          /\ Enters("AddTx:entering_amount") => TypeChosen(dialogue')]_vars
    /\ [](dialogue.state = "AddTx:entering_note"
            => /\ TypeChosen(dialogue)
               /\ StrictlyPositive(dialogue.amount)
               /\ dialogue.category_name # None)

\* C24: Cancel in entering_category clears the dialogue and calls nothing
C24_Cancel ==
    [][dialogue.state = "AddTx:entering_category"
         /\ enter_category(Some(CANCEL_BTN))
         => /\ dialogue' = Cleared
            /\ UNCHANGED <<store, response>>]_vars

\* C24: after the call, success clears the dialogue and failure keeps it in
\* entering_note with its data
C24_AfterCall ==
    [][Returned("create_transaction") /\ dialogue' # dialogue
         => IF response.status \in 200..299
            THEN dialogue' = Cleared
            ELSE /\ dialogue'.state = "AddTx:entering_note"
                 /\ dialogue'.awaiting = "none"
                 /\ SameData(dialogue', dialogue)]_vars

\* C24: in the add-transaction dialogue create_transaction is called only in
\* entering_note, which is reached only after a type button, then a strictly
\* positive amount in entering_amount, then a category text in
\* entering_category; Cancel in entering_category returns to idle without a
\* call; a successful call clears the dialogue and a failed one leaves it in
\* entering_note with its data
C24_AddDialogue ==
    /\ C24_CallOnlyInNote
    /\ C24_Order
    /\ C24_Cancel
    /\ C24_AfterCall

====
